---- MODULE Spec2Model ----
(***************************************************************************)
(* Model of the scenario orchestrator (src/src/orchestrator/orchestrator.ts)*)
(* and of the retry runner it drives (runWithRetries).                      *)
(*                                                                         *)
(* Node runs one task at a time: an action of this model is one event-loop  *)
(* callback run to completion (the code between two awaits), and execSync   *)
(* is a blocking call during which no other callback, timer or signal       *)
(* handler runs.                                                            *)
(***************************************************************************)
EXTENDS Integers, Sequences, FiniteSets, TLC

\* ---------------------------------------------------------------- bounds
MaxScen == 3
MaxConc == 3
MaxAttempts == 2
MaxChunkLen == 9
MaxChunkConc == 6
MaxRunAttempts == 5
MaxRetries == 3
MaxTplLen == 3
MaxClients == 3

\* ------------------------------------------------------------- templates
\* A prompt template is a sequence of tokens: literal text, or a
\* ${CONFIG.KEY} placeholder matched by /\$\{CONFIG\.([A-Z0-9_]+)\}/g.
\* Ph(k) is the text ${CONFIG.k}; the pattern matches it only when k is a
\* name made of A-Z, 0-9 and _, and leaves it as text otherwise.
Lit(s) == [kind |-> "lit", val |-> s]
Ph(k) == [kind |-> "ph", val |-> k]

\* the key names of the model that [A-Z0-9_]+ matches
KeyNames ==
  {"ENV", "BASE_URL", "USERNAME", "PASSWORD", "OPENAI_API_KEY", "MISSING"}

\* the tokens the pattern matches
IsPlaceholder(token) == token.kind = "ph" /\ token.val \in KeyNames

Whitespace == {"", " "}

\* The values come from the environment; getEnvVariable rejects a value
\* only when it is falsy (unset or empty), so a value may be any other
\* string: here PASSWORD_QA is a single space.
CONFIG ==
  [ENV |-> "qa", BASE_URL |-> "https://x", USERNAME |-> "user",
   PASSWORD |-> " ", OPENAI_API_KEY |-> "sk"]

TplOk == << Lit("go to "), Ph("BASE_URL") >>
TplBlank == << Lit(" ") >>
TplMissing == << Lit("log in at "), Ph("MISSING") >>
Templates == {TplOk, TplBlank, TplMissing}

Tags == <<"t1", "t2", "t3", "t4", "t5", "t6", "t7", "t8", "t9", "t10">>
NoTag == "none"

\* !prompt.prompt.trim()
IsBlank(template) ==
  \A i \in 1..Len(template) :
    template[i].kind = "lit" /\ template[i].val \in Whitespace

\* the keys named by the placeholders of a template that CONFIG lacks
UnknownKeys(template) ==
  {template[i].val : i \in {j \in 1..Len(template) :
      IsPlaceholder(template[j]) /\ template[j].val \notin DOMAIN CONFIG}}

\* a replace without the g flag: only the first match is looked at
interpolateConfigPlaceholders_firstOnly(template) ==
  LET matches == {i \in 1..Len(template) : IsPlaceholder(template[i])}
      first == CHOOSE i \in matches : \A j \in matches : i <= j
  IN IF matches = {} THEN [thrown |-> FALSE, value |-> template,
                           details |-> {}]
     ELSE IF template[first].val \notin DOMAIN CONFIG
     THEN [thrown |-> TRUE, value |-> << >>, details |-> DOMAIN CONFIG]
     ELSE [thrown |-> FALSE,
           value |-> [template EXCEPT
                        ![first] = Lit(CONFIG[template[first].val])],
           details |-> {}]

\* an interpolation that leaves an unknown placeholder in place
interpolateConfigPlaceholders_lenient(template) ==
  [thrown |-> FALSE, value |-> template, details |-> {}]

interpolateConfigPlaceholders(template) ==
  IF UnknownKeys(template) # {}
  THEN [thrown |-> TRUE, value |-> << >>, details |-> DOMAIN CONFIG]
  ELSE [thrown |-> FALSE,
        value |-> [i \in 1..Len(template) |->
                     IF IsPlaceholder(template[i])
                     THEN Lit(CONFIG[template[i].val])
                     ELSE template[i]],
        details |-> {}]

\* --------------------------------------------------------------- chunking
Min(a, b) == IF a < b THEN a ELSE b

\* slice with an off-by-one end index
slice_shortEnd(n, from, to) ==
  [j \in 1..(Min(to - 1, n) - Min(from, n)) |-> Min(from, n) + j]

\* Array.prototype.slice(from, to) on the positions 1..n of the selection
slice(n, from, to) ==
  [j \in 1..(Min(to, n) - Min(from, n)) |-> Min(from, n) + j]

\* chunk loop whose slices overlap the next chunk by one element
RECURSIVE chunkLoop_wide(_, _, _, _)
chunkLoop_wide(n, c, i, acc) ==
  IF i < n
  THEN chunkLoop_wide(n, c, i + c, Append(acc, slice(n, i, i + c + 1)))
  ELSE acc

RECURSIVE chunkLoop(_, _, _, _)
chunkLoop(n, c, i, acc) ==
  IF i < n THEN chunkLoop(n, c, i + c, Append(acc, slice(n, i, i + c)))
  ELSE acc

buildChunks(n, c) == chunkLoop(n, c, 0, << >>)

RECURSIVE Concat(_)
Concat(ss) == IF ss = << >> THEN << >> ELSE Head(ss) \o Concat(Tail(ss))

Range(f) == {f[x] : x \in DOMAIN f}


\* ------------------------------------------------------------------ state
VARIABLES
  prompts,          \* the scenario catalog loaded at module load
  pc,               \* where main() is
  tagToRun,         \* process.argv[2]
  effectiveConfig,  \* { ...DEFAULT_CONFIG, ...config }
  scenariosToRun,   \* the selection
  chunks,           \* sequence of chunks, each a sequence of positions
  cur,              \* index of the chunk whose Promise.all main awaits
  stats,            \* RunStats: total, passed, failed
  aborted,          \* controller.signal.aborted
  outcome,          \* per scenario: state of its runScenario call
  runner,           \* per scenario: state of its runWithRetries call
  attempt,          \* per scenario: loop variable i of runWithRetries
  timer,            \* per scenario: state of its setTimeout timer
  calls,            \* generateTest and execSync calls of one observed runner
  wr,               \* the state of one withRetry call (safeActions.ts)
  interp,           \* one interpolateConfigPlaceholders call and its result
  rr,               \* files, log record and error of one observed runner
  act,              \* the body of one clickSafe or fillSafe action
  mon               \* the monitoring server: event-stream clients

vars == << prompts, pc, tagToRun, effectiveConfig, scenariosToRun, chunks,
           cur, stats, aborted, outcome, runner, attempt, timer, calls, wr,
           interp, rr, act, mon >>

ScenIds == 1..MaxScen

DEFAULT_CONFIG ==
  [concurrency |-> 1, scenarioTimeout |-> 300000, retryAttempts |-> 2,
   continueOnFailure |-> TRUE]

ValidEnvs == {"qa", "uat", "prod"}
EnvArgs == {"", "qa", "dev"}

\* main() has not reached `const stats` yet: there is no statistics object
NoStats == [total |-> -1, passed |-> -1, failed |-> << >>]

\* calls are counted only for a runner observed on its own
NoCalls == [gen |-> 0, exec |-> 0, ok |-> 0]

\* no withRetry call is under way
NoRetry == [pc |-> "none"]

\* no interpolateConfigPlaceholders call is observed on its own
NoInterp == [pc |-> "none"]

\* no runner is observed with its files
NoRun == [pc |-> "none"]

\* no clickSafe or fillSafe call is under way
NoAct == [pc |-> "none"]

\* the monitoring server is not part of the run
NoMon == [pc |-> "none"]

FailedOutcomes ==
  {"aborted", "emptyPrompt", "unknownKey", "runnerFailed", "timedOut"}
SettledOutcomes == FailedOutcomes \cup {"passed"}

\* catalogs of up to MaxScen scenarios; the i-th scenario carries the i-th tag
Catalogs ==
  UNION {{[i \in 1..n |-> [tag |-> Tags[i], prompt |-> t[i]]] :
            t \in [1..n -> Templates]} : n \in 0..MaxScen}

TagArgs == {NoTag, Tags[1], Tags[2], "absent"}

\* Number(process.env["RETRY_ATTEMPTS"]) || DEFAULT_CONFIG.retryAttempts:
\* any number but 0, a negative one included
RetryAttemptArgs == {-1} \cup 1..MaxAttempts

Init ==
  /\ prompts \in Catalogs
  /\ pc = "start"
  /\ tagToRun = NoTag
  /\ effectiveConfig = DEFAULT_CONFIG
  /\ scenariosToRun = << >>
  /\ chunks = << >>
  /\ cur = 0
  /\ stats = NoStats
  /\ aborted = FALSE
  /\ outcome = [s \in ScenIds |-> "notStarted"]
  /\ runner = [s \in ScenIds |-> "idle"]
  /\ attempt = [s \in ScenIds |-> 0]
  /\ timer = [s \in ScenIds |-> "unarmed"]
  /\ calls = NoCalls
  /\ act = NoAct
  /\ mon = NoMon
  /\ wr = NoRetry
  /\ interp = NoInterp
  /\ rr = NoRun

\* ------------------------------------------------------------ runScenario
\* What entering runWithRetries does up to its first await: the loop is
\* skipped when attempts < 1, otherwise attempt 1 calls generateTest.
\* a loop that tests its condition after the body (do ... while)
runWithRetriesEnter_atLeastOnce(attempts) ==
  [runner |-> "generating", attempt |-> 1, outcome |-> "racing"]

runWithRetriesEnter(attempts) ==
  IF 1 <= attempts
  THEN [runner |-> "generating", attempt |-> 1, outcome |-> "racing"]
  ELSE [runner |-> "resolved", attempt |-> 1, outcome |-> "passed"]

\* a throw in front of the race that escapes runScenario
catchBeforeRace_rethrow(reason) == "rejected"

\* The outcome of a throw in front of the race: the try block catches it.
catchBeforeRace(reason) == reason

\* runScenario without the signal check in front
runScenarioEnter_noAbortCheck(scenario, signalAborted, config) ==
  IF IsBlank(scenario.prompt)
  THEN [outcome |-> catchBeforeRace("emptyPrompt"), runner |-> "idle",
        attempt |-> 0, timer |-> "unarmed"]
  ELSE IF interpolateConfigPlaceholders(scenario.prompt).thrown
  THEN [outcome |-> catchBeforeRace("unknownKey"), runner |-> "idle",
        attempt |-> 0, timer |-> "unarmed"]
  ELSE [outcome |-> runWithRetriesEnter(config.retryAttempts).outcome,
        runner |-> runWithRetriesEnter(config.retryAttempts).runner,
        attempt |-> runWithRetriesEnter(config.retryAttempts).attempt,
        timer |-> "armed"]

\* runScenario without the check of prompt.prompt.trim()
runScenarioEnter_noBlankCheck(scenario, signalAborted, config) ==
  IF signalAborted
  THEN [outcome |-> catchBeforeRace("aborted"), runner |-> "idle",
        attempt |-> 0, timer |-> "unarmed"]
  ELSE IF interpolateConfigPlaceholders(scenario.prompt).thrown
  THEN [outcome |-> catchBeforeRace("unknownKey"), runner |-> "idle",
        attempt |-> 0, timer |-> "unarmed"]
  ELSE [outcome |-> runWithRetriesEnter(config.retryAttempts).outcome,
        runner |-> runWithRetriesEnter(config.retryAttempts).runner,
        attempt |-> runWithRetriesEnter(config.retryAttempts).attempt,
        timer |-> "armed"]

\* runScenario that awaits the runner alone, with no timer beside it
runScenarioEnter_noTimer(scenario, signalAborted, config) ==
  IF signalAborted
  THEN [outcome |-> catchBeforeRace("aborted"), runner |-> "idle",
        attempt |-> 0, timer |-> "unarmed"]
  ELSE IF IsBlank(scenario.prompt)
  THEN [outcome |-> catchBeforeRace("emptyPrompt"), runner |-> "idle",
        attempt |-> 0, timer |-> "unarmed"]
  ELSE IF interpolateConfigPlaceholders(scenario.prompt).thrown
  THEN [outcome |-> catchBeforeRace("unknownKey"), runner |-> "idle",
        attempt |-> 0, timer |-> "unarmed"]
  ELSE [outcome |-> runWithRetriesEnter(config.retryAttempts).outcome,
        runner |-> runWithRetriesEnter(config.retryAttempts).runner,
        attempt |-> runWithRetriesEnter(config.retryAttempts).attempt,
        timer |-> "unarmed"]

\* runScenario up to its first await (Promise.race)
runScenarioEnter(scenario, signalAborted, config) ==
  IF signalAborted
  THEN [outcome |-> catchBeforeRace("aborted"), runner |-> "idle",
        attempt |-> 0, timer |-> "unarmed"]
  ELSE IF IsBlank(scenario.prompt)
  THEN [outcome |-> catchBeforeRace("emptyPrompt"), runner |-> "idle",
        attempt |-> 0, timer |-> "unarmed"]
  ELSE IF interpolateConfigPlaceholders(scenario.prompt).thrown
  THEN [outcome |-> catchBeforeRace("unknownKey"), runner |-> "idle",
        attempt |-> 0, timer |-> "unarmed"]
  ELSE [outcome |-> runWithRetriesEnter(config.retryAttempts).outcome,
        runner |-> runWithRetriesEnter(config.retryAttempts).runner,
        attempt |-> runWithRetriesEnter(config.retryAttempts).attempt,
        timer |-> "armed"]

\* chunk.map(async scenario => runScenario(...)): every scenario of the
\* chunk enters runScenario, in element order, in the same callback.
startChunk(chunk, sel, config) ==
  /\ outcome' = [s \in ScenIds |->
       IF s \in Range(chunk)
       THEN runScenarioEnter(sel[s], aborted, config).outcome
       ELSE outcome[s]]
  /\ runner' = [s \in ScenIds |->
       IF s \in Range(chunk)
       THEN runScenarioEnter(sel[s], aborted, config).runner
       ELSE runner[s]]
  /\ attempt' = [s \in ScenIds |->
       IF s \in Range(chunk)
       THEN runScenarioEnter(sel[s], aborted, config).attempt
       ELSE attempt[s]]
  /\ timer' = [s \in ScenIds |->
       IF s \in Range(chunk)
       THEN runScenarioEnter(sel[s], aborted, config).timer
       ELSE timer[s]]

\* ------------------------------------------------------------------- main
parseArgs(envArg) == envArg = "" \/ envArg \in ValidEnvs

\* a selection that ignores the tag
filterPrompts_all(tag) == prompts

\* a selection with the comparison inverted
filterPrompts_neq(tag) ==
  IF tag # NoTag THEN SelectSeq(prompts, LAMBDA p : p.tag # tag) ELSE prompts

\* tagToRun ? prompts.filter(p => p.tag === tagToRun) : prompts
filterPrompts(tag) ==
  IF tag # NoTag THEN SelectSeq(prompts, LAMBDA p : p.tag = tag) ELSE prompts

\* main() from its first line to the first await Promise.all
MainStart ==
  /\ pc = "start"
  /\ \E envArg \in EnvArgs, tag \in TagArgs, c \in 1..MaxConc,
        a \in RetryAttemptArgs, cof \in BOOLEAN :
       LET config == [DEFAULT_CONFIG EXCEPT !.concurrency = c,
                        !.retryAttempts = a, !.continueOnFailure = cof]
           sel == filterPrompts(tag)
           cs == buildChunks(Len(sel), c)
       IN /\ effectiveConfig' = config
          /\ IF ~parseArgs(envArg)
             THEN /\ pc' = "invalidEnv"
                  /\ UNCHANGED << tagToRun, scenariosToRun, chunks, cur,
                                  stats, outcome, runner, attempt, timer >>
             ELSE IF Len(sel) = 0
             THEN /\ pc' = "noScenarios"
                  /\ tagToRun' = tag
                  /\ UNCHANGED << scenariosToRun, chunks, cur, stats,
                                  outcome, runner, attempt, timer >>
             ELSE /\ pc' = "awaitChunk"
                  /\ tagToRun' = tag
                  /\ scenariosToRun' = sel
                  /\ stats' = [total |-> Len(sel), passed |-> 0,
                               failed |-> << >>]
                  /\ chunks' = cs
                  /\ cur' = 1
                  /\ startChunk(cs[1], sel, config)
  /\ UNCHANGED << act, mon, interp, rr, prompts, aborted, calls, wr >>

\* Promise.race in place of Promise.all: the first settled promise resumes main
promiseAllSettled_any(chunk) ==
  \E i \in 1..Len(chunk) : outcome[chunk[i]] \in SettledOutcomes

\* Promise.all(chunkPromises) has settled: every promise fulfilled, or one
\* rejected.
promiseAllSettled(chunk) ==
  \/ \A i \in 1..Len(chunk) : outcome[chunk[i]] \in SettledOutcomes
  \/ \E i \in 1..Len(chunk) : outcome[chunk[i]] = "rejected"

\* result loop without the throw
RECURSIVE recordResults_noThrow(_, _, _, _)
recordResults_noThrow(chunk, i, st, cof) ==
  IF i > Len(chunk) THEN [stats |-> st, thrown |-> FALSE]
  ELSE IF outcome[chunk[i]] = "passed"
  THEN recordResults_noThrow(chunk, i + 1, [st EXCEPT !.passed = @ + 1], cof)
  ELSE recordResults_noThrow(chunk, i + 1,
         [st EXCEPT !.failed = Append(@, scenariosToRun[chunk[i]].tag)], cof)

\* result loop that throws only after the whole chunk was recorded
RECURSIVE recordResults_lateThrow(_, _, _, _)
recordResults_lateThrow(chunk, i, st, cof) ==
  IF i > Len(chunk)
  THEN [stats |-> st, thrown |-> ~cof /\ Len(st.failed) > 0]
  ELSE IF outcome[chunk[i]] = "passed"
  THEN recordResults_lateThrow(chunk, i + 1, [st EXCEPT !.passed = @ + 1],
                               cof)
  ELSE recordResults_lateThrow(chunk, i + 1,
         [st EXCEPT !.failed = Append(@, scenariosToRun[chunk[i]].tag)], cof)

\* result loop that puts a failed tag in front (unshift for push)
RECURSIVE recordResults_unshift(_, _, _, _)
recordResults_unshift(chunk, i, st, cof) ==
  IF i > Len(chunk) THEN [stats |-> st, thrown |-> FALSE]
  ELSE IF outcome[chunk[i]] = "passed"
  THEN recordResults_unshift(chunk, i + 1, [st EXCEPT !.passed = @ + 1], cof)
  ELSE LET pushed == [st EXCEPT !.failed =
                         << scenariosToRun[chunk[i]].tag >> \o @]
       IN IF ~cof THEN [stats |-> pushed, thrown |-> TRUE]
          ELSE recordResults_unshift(chunk, i + 1, pushed, cof)

\* result loop that records a failure and does not count a pass
RECURSIVE recordResults_noCount(_, _, _, _)
recordResults_noCount(chunk, i, st, cof) ==
  IF i > Len(chunk) THEN [stats |-> st, thrown |-> FALSE]
  ELSE IF outcome[chunk[i]] = "passed"
  THEN recordResults_noCount(chunk, i + 1, st, cof)
  ELSE LET pushed == [st EXCEPT !.failed =
                         Append(@, scenariosToRun[chunk[i]].tag)]
       IN IF ~cof THEN [stats |-> pushed, thrown |-> TRUE]
          ELSE recordResults_noCount(chunk, i + 1, pushed, cof)

\* for (const { scenario, passed } of chunkResults) { ... }
RECURSIVE recordResults(_, _, _, _)
recordResults(chunk, i, st, cof) ==
  IF i > Len(chunk) THEN [stats |-> st, thrown |-> FALSE]
  ELSE IF outcome[chunk[i]] = "passed"
  THEN recordResults(chunk, i + 1, [st EXCEPT !.passed = @ + 1], cof)
  ELSE LET pushed == [st EXCEPT !.failed =
                         Append(@, scenariosToRun[chunk[i]].tag)]
       IN IF ~cof THEN [stats |-> pushed, thrown |-> TRUE]
          ELSE recordResults(chunk, i + 1, pushed, cof)

\* main() resumed after await Promise.all: record the chunk's results, then
\* throw the abort error, start the next chunk, or write the summary.
MainResume ==
  /\ pc = "awaitChunk"
  /\ promiseAllSettled(chunks[cur])
  /\ IF \E i \in 1..Len(chunks[cur]) : outcome[chunks[cur][i]] = "rejected"
     THEN /\ pc' = "scenarioRejected"
          /\ UNCHANGED << stats, cur, outcome, runner, attempt, timer >>
     ELSE LET r == recordResults(chunks[cur], 1, stats,
                                 effectiveConfig.continueOnFailure)
          IN /\ stats' = r.stats
             /\ IF r.thrown
                THEN /\ pc' = "aborted"
                     /\ UNCHANGED << cur, outcome, runner, attempt, timer >>
                ELSE IF cur < Len(chunks)
                THEN /\ pc' = "awaitChunk"
                     /\ cur' = cur + 1
                     /\ startChunk(chunks[cur + 1], scenariosToRun,
                                   effectiveConfig)
                ELSE /\ pc' = "summary"
                     /\ UNCHANGED << cur, outcome, runner, attempt, timer >>
  /\ UNCHANGED << act, mon, interp, rr, prompts, tagToRun, effectiveConfig, scenariosToRun, chunks,
                  aborted, calls, wr >>

\* ------------------------------------------------------------- event loop
\* execSync blocks the only thread: nothing else runs meanwhile.
Blocked == \E s \in ScenIds : runner[s] = "executing"

\* Promise continuations (microtasks) run before the next timer, I/O or
\* signal callback: main resumes as soon as its Promise.all has settled.
MicrotaskPending == pc = "awaitChunk" /\ promiseAllSettled(chunks[cur])

\* process.exit(1) ends everything; after a successful summary the process
\* stays alive while timers are armed.
Running == pc = "awaitChunk"
Alive == pc = "awaitChunk" \/ (pc = "summary" /\ Len(stats.failed) = 0)

\* a race whose result is the last settlement, not the first
raceSettle_lastWins(s, result) == result

\* a race that the timer cannot settle
raceSettle_noTimeout(s, result) ==
  IF outcome[s] = "racing" /\ result # "timedOut" THEN result ELSE outcome[s]

\* Promise.race settles with the first of the runner and the timer.
raceSettle(s, result) == IF outcome[s] = "racing" THEN result ELSE outcome[s]

\* catch block that takes the attempt before the last for the last
attemptFailed_early(s) ==
  IF attempt[s] = effectiveConfig.retryAttempts - 1
  THEN /\ runner' = [runner EXCEPT ![s] = "rejected"]
       /\ outcome' = [outcome EXCEPT ![s] = raceSettle(s, "runnerFailed")]
       /\ UNCHANGED attempt
  ELSE /\ runner' = [runner EXCEPT ![s] = "generating"]
       /\ attempt' = [attempt EXCEPT ![s] = @ + 1]
       /\ UNCHANGED outcome

\* catch block of runWithRetries: throw on the last attempt, otherwise the
\* loop goes on and the next attempt calls generateTest again.
attemptFailed(s) ==
  IF attempt[s] = effectiveConfig.retryAttempts
  THEN /\ runner' = [runner EXCEPT ![s] = "rejected"]
       /\ outcome' = [outcome EXCEPT ![s] = raceSettle(s, "runnerFailed")]
       /\ UNCHANGED attempt
  ELSE /\ runner' = [runner EXCEPT ![s] = "generating"]
       /\ attempt' = [attempt EXCEPT ![s] = @ + 1]
       /\ UNCHANGED outcome

\* a try block without the `return`: the loop goes on after a passed test
attemptPassed_noReturn(s) ==
  IF attempt[s] < effectiveConfig.retryAttempts
  THEN /\ runner' = [runner EXCEPT ![s] = "generating"]
       /\ attempt' = [attempt EXCEPT ![s] = @ + 1]
       /\ UNCHANGED outcome
  ELSE /\ runner' = [runner EXCEPT ![s] = "resolved"]
       /\ outcome' = [outcome EXCEPT ![s] = raceSettle(s, "passed")]
       /\ UNCHANGED attempt

\* the try block of runWithRetries reaches `return`
attemptPassed(s) ==
  /\ runner' = [runner EXCEPT ![s] = "resolved"]
  /\ outcome' = [outcome EXCEPT ![s] = raceSettle(s, "passed")]
  /\ UNCHANGED attempt

\* runWithRetries resumed after await generateTest: on success it goes on
\* to execSync, on failure to the catch block
generateSettled(s, ok) ==
  IF ok
  THEN /\ runner' = [runner EXCEPT ![s] = "executing"]
       /\ UNCHANGED << outcome, attempt >>
  ELSE attemptFailed(s)

\* execSync has returned (the test passed) or thrown
execSettled(s, ok) == IF ok THEN attemptPassed(s) ELSE attemptFailed(s)

\* await generateTest(prompt, tag) settles
GenerateDone(s) ==
  /\ Running /\ ~Blocked /\ ~MicrotaskPending
  /\ runner[s] = "generating"
  /\ \E ok \in BOOLEAN : generateSettled(s, ok)
  /\ UNCHANGED << act, mon, interp, rr, prompts, pc, tagToRun, effectiveConfig, scenariosToRun,
                  chunks, cur, stats, aborted, timer, calls, wr >>

\* a scenario task that counts its own pass in the shared statistics
ExecDone_counts(s) ==
  /\ Running
  /\ runner[s] = "executing"
  /\ \E ok \in BOOLEAN :
       /\ execSettled(s, ok)
       /\ stats' = IF ok THEN [stats EXCEPT !.passed = @ + 1] ELSE stats
  /\ UNCHANGED << act, mon, interp, rr, prompts, pc, tagToRun, effectiveConfig, scenariosToRun,
                  chunks, cur, aborted, timer, calls, wr >>

\* execSync(command, execOptions) returns or throws
ExecDone(s) ==
  /\ Running
  /\ runner[s] = "executing"
  /\ \E ok \in BOOLEAN : execSettled(s, ok)
  /\ UNCHANGED << act, mon, interp, rr, prompts, pc, tagToRun, effectiveConfig, scenariosToRun,
                  chunks, cur, stats, aborted, timer, calls, wr >>

\* a timeout that also ends the runner
TimerFire_cancels(s) ==
  /\ Alive /\ ~Blocked /\ ~MicrotaskPending
  /\ timer[s] = "armed"
  /\ timer' = [timer EXCEPT ![s] = "fired"]
  /\ outcome' = [outcome EXCEPT ![s] = raceSettle(s, "timedOut")]
  /\ runner' = [runner EXCEPT ![s] =
                  IF @ \in {"generating", "executing"} THEN "rejected" ELSE @]
  /\ UNCHANGED << act, mon, interp, rr, prompts, pc, tagToRun, effectiveConfig, scenariosToRun,
                  chunks, cur, stats, aborted, attempt, calls, wr >>

\* the setTimeout callback of runScenario rejects timeoutPromise
TimerFire(s) ==
  /\ Alive /\ ~Blocked /\ ~MicrotaskPending
  /\ timer[s] = "armed"
  /\ timer' = [timer EXCEPT ![s] = "fired"]
  /\ outcome' = [outcome EXCEPT ![s] = raceSettle(s, "timedOut")]
  /\ UNCHANGED << act, mon, interp, rr, prompts, pc, tagToRun, effectiveConfig, scenariosToRun,
                  chunks, cur, stats, aborted, runner, attempt, calls, wr >>

\* an abort that also rejects the races under way
Signal_interrupts ==
  /\ Alive /\ ~Blocked /\ ~MicrotaskPending
  /\ ~aborted
  /\ aborted' = TRUE
  /\ outcome' = [s \in ScenIds |->
                   IF outcome[s] = "racing" THEN "aborted" ELSE outcome[s]]
  /\ UNCHANGED << act, mon, interp, rr, prompts, pc, tagToRun, effectiveConfig, scenariosToRun,
                  chunks, cur, stats, runner, attempt, timer, calls, wr >>

\* process.once('SIGINT' | 'SIGTERM'): controller.abort()
Signal ==
  /\ Alive /\ ~Blocked /\ ~MicrotaskPending
  /\ ~aborted
  /\ aborted' = TRUE
  /\ UNCHANGED << act, mon, interp, rr, prompts, pc, tagToRun, effectiveConfig, scenariosToRun,
                  chunks, cur, stats, outcome, runner, attempt, timer,
                  calls, wr >>

\* a summary without process.exit(1)
ExitCode_noFailExit ==
  CASE pc \in {"invalidEnv", "aborted", "scenarioRejected"} -> 1
    [] pc \in {"summary", "noScenarios"} -> 0
    [] OTHER -> -1

\* process.exit(1), or the exit code 0 of a process that runs out of work;
\* -1 while main is running
ExitCode ==
  CASE pc \in {"invalidEnv", "aborted", "scenarioRejected"} -> 1
    [] pc = "summary" -> IF Len(stats.failed) > 0 THEN 1 ELSE 0
    [] pc = "noScenarios" -> 0
    [] OTHER -> -1

Next ==
  \/ MainStart
  \/ MainResume
  \/ \E s \in ScenIds : GenerateDone(s)
  \/ \E s \in ScenIds : ExecDone(s)
  \/ \E s \in ScenIds : TimerFire(s)
  \/ Signal

Spec == Init /\ [][Next]_vars

\* The event loop runs every callback that is ready: main is resumed once
\* its promise has settled, an armed timer fires once the thread is free,
\* and execSync returns (its timeout option ends the child process).  A
\* generateTest call may stay pending for ever.
FairSpec ==
  /\ Spec
  /\ WF_vars(MainStart)
  /\ WF_vars(MainResume)
  /\ \A s \in ScenIds : WF_vars(TimerFire(s)) /\ WF_vars(ExecDone(s))


\* ------------------------------------------------- chunking on its own
\* The chunk loop of main() applied to selections of up to MaxChunkLen
\* scenarios and concurrency values up to MaxChunkConc.
InitChunk ==
  /\ prompts \in {[i \in 1..n |-> [tag |-> Tags[i], prompt |-> TplOk]] :
                    n \in 0..MaxChunkLen}
  /\ pc = "chunking"
  /\ tagToRun = NoTag
  /\ effectiveConfig \in {[DEFAULT_CONFIG EXCEPT !.concurrency = c] :
                            c \in 1..MaxChunkConc}
  /\ scenariosToRun = prompts
  /\ chunks = << >>
  /\ cur = 0
  /\ stats = [total |-> Len(prompts), passed |-> 0, failed |-> << >>]
  /\ aborted = FALSE
  /\ outcome = [s \in ScenIds |-> "notStarted"]
  /\ runner = [s \in ScenIds |-> "idle"]
  /\ attempt = [s \in ScenIds |-> 0]
  /\ timer = [s \in ScenIds |-> "unarmed"]
  /\ calls = NoCalls
  /\ act = NoAct
  /\ mon = NoMon
  /\ wr = NoRetry
  /\ interp = NoInterp
  /\ rr = NoRun

ChunkStep ==
  /\ pc = "chunking"
  /\ chunks' = buildChunks(Len(scenariosToRun), effectiveConfig.concurrency)
  /\ pc' = "chunked"
  /\ UNCHANGED << act, mon, interp, rr, prompts, tagToRun, effectiveConfig, scenariosToRun, cur,
                  stats, aborted, outcome, runner, attempt, timer, calls,
                  wr >>

NextChunk == ChunkStep

SpecChunk == InitChunk /\ [][NextChunk]_vars

\* --------------------------------------------- runWithRetries on its own
\* One call runWithRetries(prompt, tag, attempts) awaited by its caller,
\* with no timer beside it; calls counts its generateTest calls, its
\* execSync calls and the execSync calls that returned.
\* paths are sequences of names; rerunHandler sits in <root>/src/utils (or
\* in the build output), the process may be started from several places
Dirnames == {<< "repo", "src", "utils" >>,
             << "repo", "dist", "src", "utils" >>}
Cwds == {<< "repo" >>, << "repo", "src" >>, << "repo", "dist", "src" >>}

\* path.resolve(__dirname, "../tests", `${tag}.spec.ts`)
testPath(dirname, tag) ==
  SubSeq(dirname, 1, Len(dirname) - 1) \o << "tests", tag, ".spec.ts" >>

\* path.join(path.join(process.cwd(), 'tests/generated'),
\*           `${testName}${options.fileExtension}`)
testFilePath(cwd, testName) ==
  cwd \o << "tests", "generated" >> \o << testName, ".spec.ts" >>

\* error texts: a short one and one longer than the log keeps
LogErrorLimit == 300
Text(c, n) == [i \in 1..n |-> c]
ErrTexts == {Text("a", 2), Text("b", LogErrorLimit + 1)}

\* errorMessage.slice(0, n)
sliceText(text, n) == SubSeq(text, 1, Min(n, Len(text)))

NoThrown == [attempts |-> 0, text |-> << >>]
NoLog == [tag |-> "none", error |-> << >>, attempt |-> 0,
          totalAttempts |-> 0]

\* an error that carries the text as the log does
exhaustedError_truncated(attempts, errorMessage) ==
  [attempts |-> attempts, text |-> sliceText(errorMessage, LogErrorLimit)]

\* new Error(`Test failed after ${attempts} attempts: ${errorMessage}`)
exhaustedError(attempts, errorMessage) ==
  [attempts |-> attempts, text |-> errorMessage]

\* logger.error(`Test attempt ${i} failed`, { tag, error:
\* errorMessage.slice(0, 300), attempt: i, totalAttempts: attempts })
attemptLog(tag, errorMessage, i, attempts) ==
  [tag |-> tag, error |-> sliceText(errorMessage, LogErrorLimit),
   attempt |-> i, totalAttempts |-> attempts]

\* generateTest has written its file; runWithRetries runs the file at
\* testPath, whatever that file holds (0: not a file of this call)
generated(r, tag, i) ==
  LET written == [r.fs EXCEPT ![testFilePath(r.cwd, tag)] = i]
  IN [r EXCEPT !.fs = written,
               !.ran = Append(@, [attempt |-> i,
                                  artifact |-> written[testPath(r.dirname,
                                                                tag)]])]

\* the catch block: the log record, and the error when it throws
caught(r, tag, errorMessage, i, attempts, throws) ==
  [r EXCEPT !.errorMessage = errorMessage,
            !.logged = attemptLog(tag, errorMessage, i, attempts),
            !.thrown = IF throws THEN exhaustedError(attempts, errorMessage)
                       ELSE @]

InitRetry ==
  /\ prompts = << [tag |-> Tags[1], prompt |-> TplOk] >>
  /\ pc = "retryCall"
  /\ tagToRun = NoTag
  /\ effectiveConfig \in {[DEFAULT_CONFIG EXCEPT !.retryAttempts = a] :
                            a \in (-1)..MaxRunAttempts}
  /\ scenariosToRun = prompts
  /\ chunks = << << 1 >> >>
  /\ cur = 1
  /\ stats = NoStats
  /\ aborted = FALSE
  /\ outcome = [s \in ScenIds |-> "notStarted"]
  /\ runner = [s \in ScenIds |-> "idle"]
  /\ attempt = [s \in ScenIds |-> 0]
  /\ timer = [s \in ScenIds |-> "unarmed"]
  /\ calls = NoCalls
  /\ act = NoAct
  /\ mon = NoMon
  /\ wr = NoRetry
  /\ interp = NoInterp
  /\ rr \in {[pc |-> "run", cwd |-> c, dirname |-> d,
              fs |-> [p \in {testFilePath(c, Tags[1]), testPath(d, Tags[1])}
                        |-> 0],
              ran |-> << >>, errorMessage |-> << >>, logged |-> NoLog,
              thrown |-> NoThrown] : c \in Cwds, d \in Dirnames}

\* the call: runWithRetries up to its first await, or to its end when the
\* loop body is never entered
RetryCall ==
  /\ pc = "retryCall"
  /\ pc' = "retry"
  /\ LET e == runWithRetriesEnter(effectiveConfig.retryAttempts)
     IN /\ runner' = [runner EXCEPT ![1] = e.runner]
        /\ attempt' = [attempt EXCEPT ![1] = e.attempt]
        /\ outcome' = [outcome EXCEPT ![1] = e.outcome]
        /\ calls' = [calls EXCEPT
                       !.gen = IF e.runner = "generating" THEN 1 ELSE 0]
  /\ UNCHANGED << act, mon, interp, rr, prompts, tagToRun, effectiveConfig, scenariosToRun, chunks,
                  cur, stats, aborted, timer, wr >>

RetryGenerateDone ==
  /\ pc = "retry"
  /\ runner[1] = "generating"
  /\ \E ok \in BOOLEAN :
       /\ generateSettled(1, ok)
       /\ IF ok THEN rr' = generated(rr, scenariosToRun[1].tag, attempt[1])
          ELSE \E m \in ErrTexts :
                 rr' = caught(rr, scenariosToRun[1].tag, m, attempt[1],
                              effectiveConfig.retryAttempts,
                              runner'[1] = "rejected")
  /\ calls' = [calls EXCEPT
                 !.gen = IF attempt'[1] # attempt[1] THEN @ + 1 ELSE @,
                 !.exec = IF runner'[1] = "executing" THEN @ + 1 ELSE @]
  /\ UNCHANGED << act, mon, interp, prompts, pc, tagToRun, effectiveConfig, scenariosToRun,
                  chunks, cur, stats, aborted, timer, wr >>

RetryExecDone ==
  /\ pc = "retry"
  /\ runner[1] = "executing"
  /\ \E ok \in BOOLEAN :
       /\ execSettled(1, ok)
       /\ calls' = [calls EXCEPT
                      !.gen = IF attempt'[1] # attempt[1] THEN @ + 1 ELSE @,
                      !.ok = IF ok THEN @ + 1 ELSE @]
       /\ IF ok THEN rr' = rr
          ELSE \E m \in ErrTexts :
                 rr' = caught(rr, scenariosToRun[1].tag, m, attempt[1],
                              effectiveConfig.retryAttempts,
                              runner'[1] = "rejected")
  /\ UNCHANGED << act, mon, interp, prompts, pc, tagToRun, effectiveConfig, scenariosToRun,
                  chunks, cur, stats, aborted, timer, wr >>

NextRetry == RetryCall \/ RetryGenerateDone \/ RetryExecDone

SpecRetry == InitRetry /\ [][NextRetry]_vars

\* ------------------------------------------------------------- withRetry
\* One call withRetry(action, options, actionName, target) of
\* safeActions.ts.  wr holds its locals (i, attempts, errorMessage), the
\* options it reads, where it is suspended, what it returned or threw, and
\* a record of what it did: action invocations, messages of the failed
\* attempts, onError calls, sleeps.
Values == {"v1", "v2"}
Messages == {"e1", "e2"}
Delays == {100, 500}

\* the callers of withRetry: clickSafe passes its selector as the target,
\* executeSafe passes no target
Callers == {[actionName |-> "Click", target |-> "#submit"],
            [actionName |-> "CustomAction", target |-> "none"]}

NoError == [message |-> << >>, selector |-> "none", attempt |-> 0,
            cause |-> "none"]
NoResult == [success |-> FALSE, value |-> "none", error |-> NoError,
             attempts |-> 0]

InitAction ==
  /\ prompts = << >>
  /\ pc = "withRetry"
  /\ tagToRun = NoTag
  /\ effectiveConfig = DEFAULT_CONFIG
  /\ scenariosToRun = << >>
  /\ chunks = << >>
  /\ cur = 0
  /\ stats = NoStats
  /\ aborted = FALSE
  /\ outcome = [s \in ScenIds |-> "notStarted"]
  /\ runner = [s \in ScenIds |-> "idle"]
  /\ attempt = [s \in ScenIds |-> 0]
  /\ timer = [s \in ScenIds |-> "unarmed"]
  /\ calls = NoCalls
  /\ act = NoAct
  /\ mon = NoMon
  /\ wr \in {[pc |-> "call", retries |-> r, delay |-> d, hasOnError |-> h,
              actionName |-> c.actionName, target |-> c.target,
              i |-> 0, attempts |-> 0, errorMessage |-> "none",
              invoked |-> 0, errs |-> << >>, lastValue |-> "none",
              onErrorCalls |-> << >>, sleeps |-> << >>,
              onErrorFailed |-> FALSE,
              thrown |-> "none", result |-> NoResult] :
               r \in (-1)..MaxRetries, d \in Delays, h \in BOOLEAN,
               c \in Callers}
  /\ interp = NoInterp
  /\ rr = NoRun

\* a loop exit that returns instead of throwing
loopEnter_returns(w) ==
  IF w.i < w.retries
  THEN [w EXCEPT !.attempts = @ + 1, !.invoked = @ + 1, !.pc = "action"]
  ELSE [w EXCEPT !.pc = "returned"]

\* loop head that forgets attempts++
loopEnter_noCount(w) ==
  IF w.i < w.retries
  THEN [w EXCEPT !.invoked = @ + 1, !.pc = "action"]
  ELSE [w EXCEPT !.pc = "threw", !.thrown = "loopExit"]

\* for (...; i < options.retries; ...) { attempts++; ... await action()
\* and, past the loop, throw new Error('Unexpected retry loop exit')
loopEnter(w) ==
  IF w.i < w.retries
  THEN [w EXCEPT !.attempts = @ + 1, !.invoked = @ + 1, !.pc = "action"]
  ELSE [w EXCEPT !.pc = "threw", !.thrown = "loopExit"]

\* last-attempt test that is one off
isLastAttempt_offByOne(i, retries) == i = retries

\* const isLastAttempt = i === options.retries - 1
isLastAttempt(i, retries) == i = retries - 1

\* a backoff whose exponent is the attempt number
backoff_oneBased(delay, i) == delay * 2 ^ (i + 1)

\* options.delay * Math.pow(2, i)
backoff(delay, i) == delay * 2 ^ i

\* a success result that leaves the value out
successResult_noValue(w, v) ==
  [success |-> TRUE, value |-> "none", error |-> NoError,
   attempts |-> w.attempts]

\* return { success: true, value, attempts, duration }
successResult(w, v) ==
  [success |-> TRUE, value |-> v, error |-> NoError, attempts |-> w.attempts]

\* a final error built from the first failure instead of the last
failureResult_firstError(w, m) ==
  [success |-> FALSE, value |-> "none",
   error |-> [message |-> << w.actionName, w.attempts, w.errs[1] >>,
              selector |-> w.target, attempt |-> w.attempts,
              cause |-> w.errs[1]],
   attempts |-> w.attempts]

\* new SafeActionError(`${actionName} failed after ${attempts} attempts:
\* ${errorMessage}`, target, attempts, error) in { success: false, ... }
failureResult(w, m) ==
  [success |-> FALSE, value |-> "none",
   error |-> [message |-> << w.actionName, w.attempts, m >>,
              selector |-> w.target, attempt |-> w.attempts, cause |-> m],
   attempts |-> w.attempts]

\* the catch block after the onError call: return on the last attempt,
\* otherwise sleep
afterOnError(w, m) ==
  IF isLastAttempt(w.i, w.retries)
  THEN [w EXCEPT !.pc = "returned", !.result = failureResult(w, m)]
  ELSE [w EXCEPT !.pc = "sleep",
                 !.sleeps = Append(@, backoff(w.delay, w.i))]

\* a catch block that leaves out the onError call on the last attempt
actionFailed_skipLast(w, m) ==
  LET w1 == [w EXCEPT !.errs = Append(@, m), !.errorMessage = m]
  IN IF w.hasOnError /\ ~isLastAttempt(w.i, w.retries)
     THEN [w1 EXCEPT !.pc = "onError",
                     !.onErrorCalls = Append(@, w.attempts)]
     ELSE afterOnError(w1, m)

\* the catch block up to its first await
actionFailed(w, m) ==
  LET w1 == [w EXCEPT !.errs = Append(@, m), !.errorMessage = m]
  IN IF w.hasOnError
     THEN [w1 EXCEPT !.pc = "onError",
                     !.onErrorCalls = Append(@, w.attempts)]
     ELSE afterOnError(w1, m)

actionSucceeded(w, v) ==
  [w EXCEPT !.pc = "returned", !.lastValue = v,
            !.result = successResult(w, v)]

WithRetryCall ==
  /\ wr.pc = "call"
  /\ wr' = loopEnter(wr)
  /\ UNCHANGED << act, mon, interp, rr, prompts, pc, tagToRun, effectiveConfig, scenariosToRun,
                  chunks, cur, stats, aborted, outcome, runner, attempt,
                  timer, calls >>

\* await action() settles
ActionSettled ==
  /\ wr.pc = "action"
  /\ \E ok \in BOOLEAN, v \in Values, m \in Messages :
       wr' = IF ok THEN actionSucceeded(wr, v) ELSE actionFailed(wr, m)
  /\ UNCHANGED << act, mon, interp, rr, prompts, pc, tagToRun, effectiveConfig, scenariosToRun,
                  chunks, cur, stats, aborted, outcome, runner, attempt,
                  timer, calls >>

\* a failure of the callback that is caught and ignored
onErrorThrew_ignored(w) ==
  [afterOnError(w, w.errorMessage) EXCEPT !.onErrorFailed = TRUE]

\* await options.onError(...) rejects inside the catch block: nothing
\* catches it, withRetry rejects
onErrorThrew(w) ==
  [w EXCEPT !.pc = "threw", !.thrown = "onError", !.onErrorFailed = TRUE]

\* await options.onError(error, attempts) settles; a failure of the
\* callback leaves withRetry as a rejection
OnErrorSettled ==
  /\ wr.pc = "onError"
  /\ \E ok \in BOOLEAN :
       wr' = IF ok THEN afterOnError(wr, wr.errorMessage)
             ELSE onErrorThrew(wr)
  /\ UNCHANGED << act, mon, interp, rr, prompts, pc, tagToRun, effectiveConfig, scenariosToRun,
                  chunks, cur, stats, aborted, outcome, runner, attempt,
                  timer, calls >>

\* the backoff timer fires: i++ and the loop head again
SleepDone ==
  /\ wr.pc = "sleep"
  /\ wr' = loopEnter([wr EXCEPT !.i = @ + 1])
  /\ UNCHANGED << act, mon, interp, rr, prompts, pc, tagToRun, effectiveConfig, scenariosToRun,
                  chunks, cur, stats, aborted, outcome, runner, attempt,
                  timer, calls >>

NextAction == WithRetryCall \/ ActionSettled \/ OnErrorSettled \/ SleepDone

SpecAction == InitAction /\ [][NextAction]_vars

\* ------------------------------------ interpolateConfigPlaceholders alone
\* One call interpolateConfigPlaceholders(template) on templates of up to
\* MaxTplLen tokens: text, placeholders of keys CONFIG has, a placeholder
\* of a key it lacks, and a ${CONFIG.base_url} that the pattern does not
\* match.
Tokens ==
  {Lit("go to "), Lit(" "), Ph("BASE_URL"), Ph("USERNAME"), Ph("MISSING"),
   Ph("base_url")}

InterpTemplates == UNION {[1..n -> Tokens] : n \in 0..MaxTplLen}

NoInterpResult == [thrown |-> FALSE, value |-> << >>, details |-> {}]

InitInterp ==
  /\ prompts = << >>
  /\ pc = "interpolate"
  /\ tagToRun = NoTag
  /\ effectiveConfig = DEFAULT_CONFIG
  /\ scenariosToRun = << >>
  /\ chunks = << >>
  /\ cur = 0
  /\ stats = NoStats
  /\ aborted = FALSE
  /\ outcome = [s \in ScenIds |-> "notStarted"]
  /\ runner = [s \in ScenIds |-> "idle"]
  /\ attempt = [s \in ScenIds |-> 0]
  /\ timer = [s \in ScenIds |-> "unarmed"]
  /\ calls = NoCalls
  /\ act = NoAct
  /\ mon = NoMon
  /\ wr = NoRetry
  /\ interp \in {[pc |-> "call", template |-> t, res |-> NoInterpResult] :
                   t \in InterpTemplates}
  /\ rr = NoRun

Interpolate ==
  /\ pc = "interpolate"
  /\ interp.pc = "call"
  /\ interp' = [interp EXCEPT
                  !.pc = "done",
                  !.res = interpolateConfigPlaceholders(interp.template)]
  /\ UNCHANGED << act, mon, prompts, pc, tagToRun, effectiveConfig,
                  scenariosToRun, chunks, cur, stats, aborted, outcome,
                  runner, attempt, timer, calls, wr, rr >>

NextInterp == Interpolate

SpecInterp == InitInterp /\ [][NextInterp]_vars

\* --------------------------------------------------- clickSafe, fillSafe
\* One call of clickSafe or fillSafe: withRetry (wr) around an action body
\* whose awaited operations settle one at a time.  act holds the options
\* the body reads, the operation it awaits, the operations that succeeded
\* in the current invocation of the body, and the value read back.
Selectors == {"#submit"}
Texts == {"hello"}
\* what element.inputValue() can answer after fill(text)
FieldValues == {"hello", "hel", ""}
VerificationFailed == "Text verification failed"

\* a body that leaves the state checks out
preChecks_none(force) == << >>

\* if (!opts.force) { await expect(element).toBeVisible(...);
\*                    await expect(element).toBeEnabled(...); }
preChecks(force) ==
  IF force THEN << >> ELSE << "toBeVisible", "toBeEnabled" >>

\* if (opts.scroll) { await element.scrollIntoViewIfNeeded(); }
scrollStep(scroll) ==
  IF scroll THEN << "scrollIntoViewIfNeeded" >> ELSE << >>

\* the awaited operations of the action of clickSafe, in program order
clickBody(force, scroll) ==
  preChecks(force) \o scrollStep(scroll) \o << "click" >>

\* the awaited operations of the action of fillSafe, in program order
fillBody(force, scroll) ==
  preChecks(force) \o scrollStep(scroll) \o << "fill", "inputValue" >>

bodyOps(a) ==
  IF a.kind = "click" THEN clickBody(a.force, a.scroll)
  ELSE fillBody(a.force, a.scroll)

\* a read-back that accepts whatever the field holds
verifyText_any(text, actualText) == TRUE

\* if (actualText !== text) throw new SafeActionError(...)
verifyText(text, actualText) == actualText = text

\* action() is called: the body runs up to its first await
bodyEnter(a) ==
  [a EXCEPT !.pc = "op", !.k = 1, !.op = bodyOps(a)[1], !.log = << >>,
            !.actual = "none"]

\* the loop head of withRetry calls action() when it enters the loop body
startBody(w, a) == IF w.pc = "action" THEN bodyEnter(a) ELSE a

InitSafe ==
  /\ prompts = << >>
  /\ pc = "safeAction"
  /\ tagToRun = NoTag
  /\ effectiveConfig = DEFAULT_CONFIG
  /\ scenariosToRun = << >>
  /\ chunks = << >>
  /\ cur = 0
  /\ stats = NoStats
  /\ aborted = FALSE
  /\ outcome = [s \in ScenIds |-> "notStarted"]
  /\ runner = [s \in ScenIds |-> "idle"]
  /\ attempt = [s \in ScenIds |-> 0]
  /\ timer = [s \in ScenIds |-> "unarmed"]
  /\ calls = NoCalls
  /\ \E kind \in {"click", "fill"}, sel \in Selectors, r \in 0..MaxRetries,
        h \in BOOLEAN, f \in BOOLEAN, sc \in BOOLEAN, t \in Texts :
       /\ wr = [pc |-> "call", retries |-> r, delay |-> 500,
                hasOnError |-> h,
                actionName |-> IF kind = "click" THEN "Click" ELSE "Fill",
                target |-> sel,
                i |-> 0, attempts |-> 0, errorMessage |-> "none",
                invoked |-> 0, errs |-> << >>, lastValue |-> "none",
                onErrorCalls |-> << >>, sleeps |-> << >>,
                onErrorFailed |-> FALSE,
                thrown |-> "none", result |-> NoResult]
       /\ act = [pc |-> "idle", kind |-> kind, force |-> f, scroll |-> sc,
                 text |-> t, k |-> 0, op |-> "none", log |-> << >>,
                 actual |-> "none"]
  /\ mon = NoMon
  /\ interp = NoInterp
  /\ rr = NoRun

\* clickSafe / fillSafe is called: withRetry up to the first await
SafeCall ==
  /\ pc = "safeAction"
  /\ wr.pc = "call"
  /\ wr' = loopEnter(wr)
  /\ act' = startBody(wr', act)
  /\ UNCHANGED << mon, interp, rr, prompts, pc, tagToRun, effectiveConfig,
                  scenariosToRun, chunks, cur, stats, aborted, outcome,
                  runner, attempt, timer, calls >>

\* the operation the body awaits settles: it throws (the attempt fails),
\* or it succeeds and the body goes on to its next await, to the
\* verification of the text read back, or to its end
SafeStep ==
  /\ pc = "safeAction"
  /\ wr.pc = "action"
  /\ act.pc = "op"
  /\ \/ /\ wr' = actionFailed(wr, act.op)
        /\ act' = [act EXCEPT !.pc = "idle", !.op = "none"]
     \/ \E actualText \in FieldValues :
          LET a1 == [act EXCEPT
                       !.log = Append(@, act.op),
                       !.actual = IF act.op = "inputValue"
                                  THEN actualText ELSE @]
          IN IF act.op = "inputValue" /\ ~verifyText(act.text, actualText)
             THEN /\ wr' = actionFailed(wr, VerificationFailed)
                  /\ act' = [a1 EXCEPT !.pc = "idle", !.op = "none"]
             ELSE IF act.k = Len(bodyOps(act))
             THEN /\ wr' = actionSucceeded(wr, "none")
                  /\ act' = [a1 EXCEPT !.pc = "idle", !.op = "none"]
             ELSE /\ wr' = wr
                  /\ act' = [a1 EXCEPT !.k = @ + 1,
                                       !.op = bodyOps(act)[act.k + 1]]
  /\ UNCHANGED << mon, interp, rr, prompts, pc, tagToRun, effectiveConfig,
                  scenariosToRun, chunks, cur, stats, aborted, outcome,
                  runner, attempt, timer, calls >>

\* the backoff timer fires: i++, the loop head, and action() again
SafeSleepDone ==
  /\ pc = "safeAction"
  /\ wr.pc = "sleep"
  /\ wr' = loopEnter([wr EXCEPT !.i = @ + 1])
  /\ act' = startBody(wr', act)
  /\ UNCHANGED << mon, interp, rr, prompts, pc, tagToRun, effectiveConfig,
                  scenariosToRun, chunks, cur, stats, aborted, outcome,
                  runner, attempt, timer, calls >>

NextSafe == SafeCall \/ SafeStep \/ OnErrorSettled \/ SafeSleepDone

SpecSafe == InitSafe /\ [][NextSafe]_vars

\* ------------------------------------------------------ monitoring server
\* The event-stream clients of the monitoring server.  mon holds the set
\* `clients`, the isAlive flag of every response object, the state of
\* every connection, the clients a broadcast write has failed for, and
\* whether the server has shut down.
ClientIds == 1..MaxClients

InitMonitor ==
  /\ prompts = << >>
  /\ pc = "monitor"
  /\ tagToRun = NoTag
  /\ effectiveConfig = DEFAULT_CONFIG
  /\ scenariosToRun = << >>
  /\ chunks = << >>
  /\ cur = 0
  /\ stats = NoStats
  /\ aborted = FALSE
  /\ outcome = [s \in ScenIds |-> "notStarted"]
  /\ runner = [s \in ScenIds |-> "idle"]
  /\ attempt = [s \in ScenIds |-> 0]
  /\ timer = [s \in ScenIds |-> "unarmed"]
  /\ calls = NoCalls
  /\ act = NoAct
  /\ mon = [pc |-> "listening", clients |-> {},
            isAlive |-> [c \in ClientIds |-> FALSE],
            conn |-> [c \in ClientIds |-> "none"],
            writeFailed |-> {}]
  /\ wr = NoRetry
  /\ interp = NoInterp
  /\ rr = NoRun

\* the interval callback: a client whose flag is false is deleted, every
\* other client gets its flag cleared and a ping comment
heartbeat(m) ==
  [m EXCEPT
     !.clients = {c \in m.clients : m.isAlive[c]},
     !.isAlive = [c \in ClientIds |->
                    IF c \in m.clients THEN FALSE ELSE m.isAlive[c]]]

\* broadcast(message): a client whose write throws is deleted
broadcast(m, failing) ==
  [m EXCEPT !.clients = @ \ failing,
            !.writeFailed = @ \cup (m.clients \cap failing)]

\* gracefulShutdown(signal)(): every client is ended, clients.clear(),
\* process.exit(0)
gracefulShutdown(m) ==
  [m EXCEPT !.pc = "exited", !.clients = {},
            !.conn = [c \in ClientIds |->
                        IF c \in m.clients THEN "closed" ELSE m.conn[c]]]

\* GET /events: res.isAlive = true; clients.add(res); a close handler
Connect(c) ==
  /\ pc = "monitor" /\ mon.pc = "listening"
  /\ mon.conn[c] = "none"
  /\ mon' = [mon EXCEPT !.conn[c] = "open", !.isAlive[c] = TRUE,
                        !.clients = @ \cup {c}]
  /\ UNCHANGED << act, interp, rr, prompts, pc, tagToRun, effectiveConfig,
                  scenariosToRun, chunks, cur, stats, aborted, outcome,
                  runner, attempt, timer, calls, wr >>

\* req.on('close'): clients.delete(res)
Close(c) ==
  /\ pc = "monitor" /\ mon.pc = "listening"
  /\ mon.conn[c] = "open"
  /\ mon' = [mon EXCEPT !.conn[c] = "closed", !.clients = @ \ {c}]
  /\ UNCHANGED << act, interp, rr, prompts, pc, tagToRun, effectiveConfig,
                  scenariosToRun, chunks, cur, stats, aborted, outcome,
                  runner, attempt, timer, calls, wr >>

\* setInterval(..., 30000) fires; a ping write that throws is caught by
\* nothing but the uncaughtException handler, which shuts the server down
Heartbeat ==
  /\ pc = "monitor" /\ mon.pc = "listening"
  /\ \/ mon' = heartbeat(mon)
     \/ /\ \E c \in mon.clients : mon.isAlive[c]
        /\ mon' = gracefulShutdown(mon)
  /\ UNCHANGED << act, interp, rr, prompts, pc, tagToRun, effectiveConfig,
                  scenariosToRun, chunks, cur, stats, aborted, outcome,
                  runner, attempt, timer, calls, wr >>

\* output of a child process is broadcast; any of the writes may throw
Broadcast ==
  /\ pc = "monitor" /\ mon.pc = "listening"
  /\ \E failing \in SUBSET mon.clients : mon' = broadcast(mon, failing)
  /\ UNCHANGED << act, interp, rr, prompts, pc, tagToRun, effectiveConfig,
                  scenariosToRun, chunks, cur, stats, aborted, outcome,
                  runner, attempt, timer, calls, wr >>

\* SIGTERM or SIGINT
Shutdown ==
  /\ pc = "monitor" /\ mon.pc = "listening"
  /\ mon' = gracefulShutdown(mon)
  /\ UNCHANGED << act, interp, rr, prompts, pc, tagToRun, effectiveConfig,
                  scenariosToRun, chunks, cur, stats, aborted, outcome,
                  runner, attempt, timer, calls, wr >>

NextMonitor ==
  \/ \E c \in ClientIds : Connect(c) \/ Close(c)
  \/ Heartbeat
  \/ Broadcast
  \/ Shutdown

SpecMonitor == InitMonitor /\ [][NextMonitor]_vars

\* ------------------------------------------ the prompt of one scenario
\* One runScenario call on a template of up to MaxTplLen tokens, with the
\* prompts that runWithRetries passes to generateTest: interp.passed holds
\* the prompt argument of every generateTest call, in call order.
PromptTokens ==
  {Lit("go to "), Lit(" "), Ph("BASE_URL"), Ph("PASSWORD"), Ph("MISSING")}

PromptTemplates == UNION {[1..n -> PromptTokens] : n \in 0..MaxTplLen}

\* const expandedPrompt = interpolateConfigPlaceholders(prompt.prompt)
expandedPrompt(template) == interpolateConfigPlaceholders(template).value

InitPrompt ==
  /\ prompts \in {<< [tag |-> Tags[1], prompt |-> t] >> :
                    t \in PromptTemplates}
  /\ pc = "prompt"
  /\ tagToRun = NoTag
  /\ effectiveConfig \in {[DEFAULT_CONFIG EXCEPT !.retryAttempts = a] :
                            a \in RetryAttemptArgs}
  /\ scenariosToRun = prompts
  /\ chunks = << << 1 >> >>
  /\ cur = 1
  /\ stats = NoStats
  /\ aborted = FALSE
  /\ outcome = [s \in ScenIds |-> "notStarted"]
  /\ runner = [s \in ScenIds |-> "idle"]
  /\ attempt = [s \in ScenIds |-> 0]
  /\ timer = [s \in ScenIds |-> "unarmed"]
  /\ calls = NoCalls
  /\ act = NoAct
  /\ mon = NoMon
  /\ wr = NoRetry
  /\ interp = [pc |-> "call", passed |-> << >>]
  /\ rr = NoRun

\* generateTest(prompt, tag) is called with the expanded prompt whenever
\* the runner enters an attempt
passPrompt(i, wasAttempt, isAttempt, isGenerating) ==
  IF isGenerating /\ isAttempt # wasAttempt
  THEN [i EXCEPT !.passed =
                   Append(@, expandedPrompt(scenariosToRun[1].prompt))]
  ELSE i

\* runScenario up to its first await
PromptStart ==
  /\ pc = "prompt"
  /\ interp.pc = "call"
  /\ LET e == runScenarioEnter(scenariosToRun[1], aborted, effectiveConfig)
     IN /\ outcome' = [outcome EXCEPT ![1] = e.outcome]
        /\ runner' = [runner EXCEPT ![1] = e.runner]
        /\ attempt' = [attempt EXCEPT ![1] = e.attempt]
        /\ timer' = [timer EXCEPT ![1] = e.timer]
        /\ calls' = [calls EXCEPT
                       !.gen = IF e.runner = "generating" THEN 1 ELSE 0]
        /\ interp' = passPrompt([interp EXCEPT !.pc = "run"], 0, e.attempt,
                                e.runner = "generating")
  /\ UNCHANGED << act, mon, rr, prompts, pc, tagToRun, effectiveConfig,
                  scenariosToRun, chunks, cur, stats, aborted, wr >>

\* await generateTest(prompt, tag) settles
PromptGenerateDone ==
  /\ pc = "prompt"
  /\ runner[1] = "generating"
  /\ \E ok \in BOOLEAN : generateSettled(1, ok)
  /\ calls' = [calls EXCEPT
                 !.gen = IF attempt'[1] # attempt[1] THEN @ + 1 ELSE @,
                 !.exec = IF runner'[1] = "executing" THEN @ + 1 ELSE @]
  /\ interp' = passPrompt(interp, attempt[1], attempt'[1],
                          runner'[1] = "generating")
  /\ UNCHANGED << act, mon, rr, prompts, pc, tagToRun, effectiveConfig,
                  scenariosToRun, chunks, cur, stats, aborted, timer, wr >>

\* execSync(command, execOptions) returns or throws
PromptExecDone ==
  /\ pc = "prompt"
  /\ runner[1] = "executing"
  /\ \E ok \in BOOLEAN :
       /\ execSettled(1, ok)
       /\ calls' = [calls EXCEPT
                      !.gen = IF attempt'[1] # attempt[1] THEN @ + 1 ELSE @,
                      !.ok = IF ok THEN @ + 1 ELSE @]
  /\ interp' = passPrompt(interp, attempt[1], attempt'[1],
                          runner'[1] = "generating")
  /\ UNCHANGED << act, mon, rr, prompts, pc, tagToRun, effectiveConfig,
                  scenariosToRun, chunks, cur, stats, aborted, timer, wr >>

\* the setTimeout callback of runScenario; not while execSync blocks
PromptTimerFire ==
  /\ pc = "prompt"
  /\ timer[1] = "armed"
  /\ runner[1] # "executing"
  /\ timer' = [timer EXCEPT ![1] = "fired"]
  /\ outcome' = [outcome EXCEPT ![1] = raceSettle(1, "timedOut")]
  /\ UNCHANGED << act, mon, interp, rr, prompts, pc, tagToRun,
                  effectiveConfig, scenariosToRun, chunks, cur, stats,
                  aborted, runner, attempt, calls, wr >>

NextPrompt ==
  PromptStart \/ PromptGenerateDone \/ PromptExecDone \/ PromptTimerFire

SpecPrompt == InitPrompt /\ [][NextPrompt]_vars

\* ----------------------------------------------------------------- claims
NumSel == Len(scenariosToRun)
Conc == effectiveConfig.concurrency
ChunksBuilt == pc \in {"chunked", "awaitChunk", "summary", "aborted"}
ChunkSizes == [k \in 1..Len(chunks) |-> Len(chunks[k])]
ChunkOf(s) == CHOOSE k \in 1..Len(chunks) : s \in Range(chunks[k])
Started(s) == outcome[s] # "notStarted"
RunEnded == pc \in {"summary", "aborted"}
InFlight == {s \in ScenIds : runner[s] \in {"generating", "executing"}}
Racing == {s \in ScenIds : outcome[s] = "racing"}

\* C1: for n >= 1 selected scenarios and concurrency c >= 1 the chunks,
\* concatenated in order, are the selection; every chunk but the last has
\* exactly c elements and the last has between 1 and c.
C1_ChunkPartition ==
  (ChunksBuilt /\ NumSel >= 1) =>
     /\ Concat(chunks) = [i \in 1..NumSel |-> i]
     /\ Len(chunks) >= 1
     /\ \A k \in 1..(Len(chunks) - 1) : Len(chunks[k]) = Conc
     /\ Len(chunks[Len(chunks)]) \in 1..Conc

C1_Witness ==
  /\ pc = "chunked" /\ NumSel = 5 /\ Conc = 2
  /\ ChunkSizes = << 2, 2, 1 >>

\* C2: no scenario of chunk k+1 has entered runScenario unless every
\* scenario of chunk k has settled and main has recorded chunk k.
C2_ChunkBarrier ==
  pc \in {"awaitChunk", "summary", "aborted"} =>
    \A k \in 1..(Len(chunks) - 1) :
      (\E s \in Range(chunks[k + 1]) : Started(s)) =>
         /\ \A r \in Range(chunks[k]) : outcome[r] \in SettledOutcomes
         /\ stats.passed + Len(stats.failed) >= k * Conc

C2_Witness ==
  /\ pc = "awaitChunk" /\ cur = 2 /\ Conc = 2
  /\ outcome[1] = "runnerFailed" /\ outcome[2] = "passed"
  /\ outcome[3] = "racing"

C4_TimeoutRace ==
  \A s \in ScenIds :
    timer[s] = "fired" =>
      /\ outcome[s] # "racing"
      /\ runner[s] \in {"generating", "executing"} => outcome[s] = "timedOut"

C4_Witness ==
  /\ pc = "summary" /\ effectiveConfig.retryAttempts = 2
  /\ timer[1] = "fired" /\ runner[1] = "generating" /\ attempt[1] = 1
  /\ outcome[1] = "timedOut" /\ stats.failed = << Tags[1] >>

\* C5: with continueOnFailure=false a recorded failure means the abort
\* error was raised, and no scenario of a later chunk has started.
C5_AbortOnFailure ==
  (pc # "start" /\ ~effectiveConfig.continueOnFailure
     /\ Len(stats.failed) > 0) =>
    /\ pc = "aborted"
    /\ \A k \in (cur + 1)..Len(chunks) :
         \A s \in Range(chunks[k]) : ~Started(s)

C5_Witness ==
  /\ pc = "aborted" /\ cur = 1 /\ Len(chunks) = 3
  /\ outcome[1] = "runnerFailed" /\ ~Started(2) /\ ~Started(3)

\* a finished run of 3 scenarios, continueOnFailure=false, only the 2nd failed
OnlySecondFails ==
  /\ NumSel = 3 /\ ~effectiveConfig.continueOnFailure /\ RunEnded
  /\ outcome[1] \notin FailedOutcomes
  /\ outcome[2] \in FailedOutcomes
  /\ outcome[3] \notin FailedOutcomes

\* C6 as stated: for every concurrency that run reports passed=1, never
\* executes the 3rd scenario and raises the abort error.
C6_Original ==
  OnlySecondFails =>
    stats.passed = 1 /\ ~Started(3) /\ pc = "aborted"

\* C6 amended: that run reports passed=1 and raises the abort error for
\* every concurrency; the 3rd scenario is never started when concurrency
\* is 1 or 2, and with concurrency >= 3 it runs in the chunk of the 2nd
\* and its result is not recorded.
C6_AbortSecondOfThree ==
  OnlySecondFails =>
    /\ stats.passed = 1 /\ pc = "aborted"
    /\ stats.failed = << Tags[2] >>
    /\ Conc <= 2 => ~Started(3)
    /\ Conc >= 3 => outcome[3] = "passed"

C6_Witness ==
  /\ OnlySecondFails /\ Conc = 3 /\ outcome[3] = "passed"
  /\ stats.passed = 1 /\ pc = "aborted"

\* tags of the failed scenarios in selection order
FailedTagsInOrder ==
  LET pos == SelectSeq([i \in 1..NumSel |-> i],
                       LAMBDA s : outcome[s] \in FailedOutcomes)
  IN [i \in 1..Len(pos) |-> scenariosToRun[pos[i]].tag]

\* C7: with continueOnFailure=true every selected scenario has run when
\* the summary is reached, failedTags is the tags of the failed scenarios
\* in selection order and passed counts the others.
C7_ContinueOnFailure ==
  (pc = "summary" /\ effectiveConfig.continueOnFailure) =>
    /\ \A s \in 1..NumSel : outcome[s] \in SettledOutcomes
    /\ stats.failed = FailedTagsInOrder
    /\ stats.passed =
         Cardinality({s \in 1..NumSel : outcome[s] = "passed"})

C7_Witness ==
  /\ pc = "summary" /\ effectiveConfig.continueOnFailure /\ NumSel = 3
  /\ outcome[1] = "passed" /\ outcome[2] = "runnerFailed"
  /\ outcome[3] = "passed"
  /\ stats.failed = << Tags[2] >> /\ stats.passed = 2

\* C8: at the summary passed + length(failedTags) = total, the number of
\* selected scenarios.
C8_StatsTotal ==
  pc = "summary" =>
    /\ stats.passed + Len(stats.failed) = stats.total
    /\ stats.total = NumSel

C8_Witness ==
  /\ pc = "summary" /\ stats.total = 3
  /\ stats.passed = 2 /\ Len(stats.failed) = 1

\* C9: runScenario never rejects: abort, empty prompt, unknown key, runner
\* failure and timeout all end as a failed result, main never sees a
\* rejected chunk, every scenario of a chunk main has left is settled, and
\* a scenario whose runner settled before its timer has the runner's result.
C9_FailureIsolation ==
  /\ \A s \in ScenIds : outcome[s] # "rejected"
  /\ pc # "scenarioRejected"
  /\ \A k \in 1..Len(chunks) :
       (pc \in {"awaitChunk", "summary", "aborted"}
          /\ (k < cur \/ (k = cur /\ RunEnded))) =>
         \A s \in Range(chunks[k]) : outcome[s] \in SettledOutcomes
  /\ \A s \in ScenIds :
       timer[s] = "armed" =>
         /\ runner[s] = "resolved" => outcome[s] = "passed"
         /\ runner[s] = "rejected" => outcome[s] = "runnerFailed"

C9_Witness ==
  /\ pc = "summary" /\ Len(chunks) = 1 /\ NumSel = 3
  /\ outcome[1] = "unknownKey" /\ outcome[2] = "runnerFailed"
  /\ outcome[3] = "passed"

\* C10 as stated: a selected scenario with an unknown configuration key
\* fails the run as a whole: the run does not go on to later chunks and
\* does not reach the summary with the scenario merely listed as failed.
C10_Original ==
  \A s \in ScenIds :
    outcome[s] = "unknownKey" =>
      /\ pc # "summary"
      /\ \A r \in 1..NumSel : ChunkOf(r) > ChunkOf(s) => ~Started(r)


\* a selected scenario whose prompt is empty or names an unknown key
BadPrompt(s) ==
  \/ IsBlank(scenariosToRun[s].prompt)
  \/ UnknownKeys(scenariosToRun[s].prompt) # {}

RunStarted == pc \in {"awaitChunk", "summary", "aborted"}

\* C11 as stated: when some selected scenario has an empty prompt or an
\* unknown key, no scenario of the run gets a generate or execute call.
C11_Original ==
  (RunStarted /\ \E s \in 1..NumSel : BadPrompt(s)) =>
    \A r \in ScenIds : runner[r] = "idle"

\* C11 amended: a scenario with an empty prompt or an unknown key fails
\* when it starts, before any generate or execute call for that scenario;
\* the check is made per scenario, so the other scenarios of the run are
\* generated and executed as usual.
C11_LazyValidation ==
  RunStarted =>
    \A s \in 1..NumSel :
      (BadPrompt(s) /\ Started(s)) =>
        /\ outcome[s] \in {"emptyPrompt", "unknownKey", "aborted"}
        /\ runner[s] = "idle" /\ attempt[s] = 0 /\ timer[s] = "unarmed"

C11_Witness ==
  /\ pc = "summary" /\ NumSel = 2 /\ Conc = 1
  /\ outcome[1] = "passed" /\ runner[1] = "resolved"
  /\ outcome[2] = "emptyPrompt" /\ runner[2] = "idle"

\* positions of the catalog whose tag is the tag given on the command line
MatchingPositions == {i \in 1..Len(prompts) : prompts[i].tag = tagToRun}
ArgsParsed == pc \notin {"start", "invalidEnv", "chunking", "chunked"}
NoneStarted == \A s \in ScenIds : outcome[s] = "notStarted"

\* C12 as stated: a tag filter that matches no scenario fails the run with
\* an OrchestrationError.
C12_Original ==
  (ArgsParsed /\ tagToRun # NoTag /\ MatchingPositions = {}) =>
    ExitCode = 1

\* C12 amended: a tag filter that matches no scenario raises no error:
\* main warns, returns, starts no scenario, and the exit code is 0.
C12_NoMatchReturns ==
  (ArgsParsed /\ tagToRun # NoTag /\ MatchingPositions = {}) =>
    (pc = "noScenarios" /\ ExitCode = 0 /\ NoneStarted)

C12_Witness ==
  /\ pc = "noScenarios" /\ tagToRun = "absent" /\ Len(prompts) = 2

SelectionEmpty ==
  IF tagToRun = NoTag THEN Len(prompts) = 0 ELSE MatchingPositions = {}

\* C13 as stated: an empty selection starts no scenario, raises no error and
\* yields statistics with total = 0, passed = 0 and no failed tags.
C13_Original ==
  (ArgsParsed /\ SelectionEmpty) =>
    /\ pc = "noScenarios" /\ NoneStarted
    /\ stats = [total |-> 0, passed |-> 0, failed |-> << >>]

\* C13 amended: an empty selection starts no scenario and raises no error;
\* main returns before it creates the statistics object, and the exit code
\* is 0.
C13_EmptySelection ==
  (ArgsParsed /\ SelectionEmpty) =>
    /\ pc = "noScenarios" /\ NoneStarted
    /\ stats = NoStats /\ ExitCode = 0

C13_Witness ==
  /\ pc = "noScenarios" /\ tagToRun = NoTag /\ Len(prompts) = 0
  /\ stats = NoStats

\* C14: a scenario that enters runScenario once the signal is aborted gets
\* the outcome "aborted" with no runner, no generate call and no timer.
C14_PreStartAbort ==
  /\ [](\A s \in ScenIds :
          outcome[s] = "aborted" =>
            (aborted /\ runner[s] = "idle" /\ attempt[s] = 0))
  /\ [][aborted =>
          \A s \in ScenIds :
            (outcome[s] = "notStarted" /\ outcome'[s] # "notStarted") =>
              /\ outcome'[s] = "aborted"
              /\ runner'[s] = "idle" /\ attempt'[s] = 0
              /\ timer'[s] = "unarmed"]_vars

C14_Witness ==
  /\ aborted /\ pc = "awaitChunk" /\ cur = 2 /\ Conc = 2
  /\ outcome[1] = "passed" /\ outcome[2] = "runnerFailed"
  /\ outcome[3] = "aborted" /\ runner[3] = "idle"

NaturalOutcomes == {"racing", "passed", "runnerFailed", "timedOut"}

\* C15: the abort signal changes no scenario that is already under way: the
\* step that sets it leaves outcomes, runners and timers alone, and a
\* scenario in its race leaves it only as passed, runnerFailed or timedOut.
C15_AbortKeepsInFlight ==
  /\ [](\A s \in ScenIds : runner[s] # "idle" =>
                             outcome[s] \in NaturalOutcomes)
  /\ [][(~aborted /\ aborted') =>
          (outcome' = outcome /\ runner' = runner /\ attempt' = attempt
             /\ timer' = timer)]_vars
  /\ [][\A s \in ScenIds :
          outcome[s] = "racing" => outcome'[s] \in NaturalOutcomes]_vars

C15_Witness ==
  /\ aborted /\ outcome[1] = "racing" /\ runner[1] = "executing"
  /\ attempt[1] = 2


RunAttempts == effectiveConfig.retryAttempts
RunnerSettled == runner[1] \in {"resolved", "rejected"}

\* C16: with attempts = N >= 1 the runner never makes more than N attempts
\* (one generateTest call each), and when no test passed it rejects after
\* exactly N attempts, not before.
C16_ExactlyNAttempts ==
  (pc = "retry" /\ RunAttempts >= 1) =>
    /\ calls.gen = attempt[1] /\ calls.gen <= RunAttempts
    /\ calls.exec <= calls.gen
    /\ (RunnerSettled /\ calls.ok = 0) =>
         (runner[1] = "rejected" /\ calls.gen = RunAttempts)
    /\ runner[1] = "rejected" =>
         (calls.gen = RunAttempts /\ calls.ok = 0
            /\ outcome[1] = "runnerFailed")

C16_Witness ==
  /\ pc = "retry" /\ RunAttempts = 3 /\ runner[1] = "rejected"
  /\ calls = [gen |-> 3, exec |-> 3, ok |-> 0]

\* C17: the runner resolves exactly when an execSync call has returned, in
\* the attempt of that call: at most one test run ever passes, and no
\* generateTest or execSync call follows it.
C17_ReturnOnFirstPass ==
  /\ [](( pc = "retry" /\ RunAttempts >= 1) =>
          /\ calls.ok <= 1
          /\ (calls.ok = 1) <=> (runner[1] = "resolved")
          /\ runner[1] = "resolved" =>
               (calls.gen = attempt[1] /\ outcome[1] = "passed"))
  /\ [][(pc = "retry" /\ calls.ok = 1) =>
          (calls' = calls /\ runner' = runner /\ attempt' = attempt)]_vars

C17_Witness ==
  /\ pc = "retry" /\ RunAttempts = 3 /\ runner[1] = "resolved"
  /\ attempt[1] = 2 /\ calls = [gen |-> 2, exec |-> 2, ok |-> 1]


InRetry == pc = "withRetry" /\ wr.pc # "call"

\* C18: with retries >= 1 withRetry throws only when the onError callback
\* failed, never past its loop; after `retries` failed attempts it has
\* returned { success: false } with an error, and only then.
C18_NeverThrows ==
  (InRetry /\ wr.retries >= 1) =>
    /\ wr.thrown # "loopExit"
    /\ wr.pc = "threw" => (wr.thrown = "onError" /\ wr.hasOnError)
    /\ (Len(wr.errs) = wr.retries /\ wr.pc \notin {"onError", "threw"}) =>
         /\ wr.pc = "returned" /\ ~wr.result.success
         /\ wr.result.error # NoError
    /\ (wr.pc = "returned" /\ ~wr.result.success) =>
         Len(wr.errs) = wr.retries

C18_Witness ==
  /\ InRetry /\ wr.retries = 3 /\ ~wr.hasOnError
  /\ wr.pc = "returned" /\ ~wr.result.success /\ Len(wr.errs) = 3

\* C19: every returned outcome has 1 <= attempts <= retries, and attempts
\* is the number of times the action was invoked.
C19_AttemptsBounded ==
  (InRetry /\ wr.pc = "returned") =>
    /\ 1 <= wr.result.attempts /\ wr.result.attempts <= wr.retries
    /\ wr.result.attempts = wr.invoked

C19_Witness ==
  /\ InRetry /\ wr.pc = "returned" /\ wr.retries = 3
  /\ wr.result.attempts = 2 /\ wr.invoked = 2

\* C20: a first success on attempt k returns at once { success: true,
\* attempts: k } with the value the action gave, after k - 1 failures, and
\* the action is not invoked again.
C20_ShortCircuit ==
  /\ [](InRetry =>
          /\ wr.lastValue # "none" =>
               (wr.pc = "returned" /\ wr.result.success)
          /\ (wr.pc = "returned" /\ wr.result.success) =>
               /\ wr.result.value = wr.lastValue
               /\ wr.result.attempts = Len(wr.errs) + 1
               /\ wr.invoked = wr.result.attempts)
  /\ [][(pc = "withRetry" /\ wr.pc = "returned") => wr' = wr]_vars

C20_Witness ==
  /\ InRetry /\ wr.retries = 3 /\ wr.pc = "returned"
  /\ wr.result.success /\ wr.result.attempts = 2
  /\ wr.result.value = "v2" /\ wr.invoked = 2

FailedForGood == wr.pc = "returned" /\ ~wr.result.success

\* C21: the k-th sleep lasts delay * 2^(k-1) and follows the k-th failed
\* attempt; there is one sleep in front of every attempt but the first and
\* none after the last; with retries = 3 and delay = 100 a persistently
\* failing action sleeps 100 then 200 and the outcome's attempts is 3.
C21_Backoff ==
  InRetry =>
    /\ \A k \in 1..Len(wr.sleeps) : wr.sleeps[k] = wr.delay * 2 ^ (k - 1)
    /\ wr.pc \in {"action", "sleep"} => Len(wr.sleeps) = Len(wr.errs)
    /\ wr.retries >= 1 => Len(wr.sleeps) < wr.retries
    /\ wr.retries < 1 => wr.sleeps = << >>
    /\ FailedForGood => Len(wr.sleeps) = wr.retries - 1
    /\ (FailedForGood /\ wr.retries = 3 /\ wr.delay = 100) =>
         (wr.sleeps = << 100, 200 >> /\ wr.result.attempts = 3)

C21_Witness ==
  /\ InRetry /\ FailedForGood /\ wr.retries = 3 /\ wr.delay = 100
  /\ wr.sleeps = << 100, 200 >> /\ wr.result.attempts = 3

\* C22: the error of a terminal failure carries the message of the last
\* failed attempt, the target the caller gave, and the attempt count
\* reached, which is retries.
C22_TerminalError ==
  (InRetry /\ FailedForGood) =>
    /\ wr.result.error.message =
         << wr.actionName, wr.retries, wr.errs[Len(wr.errs)] >>
    /\ wr.result.error.cause = wr.errs[Len(wr.errs)]
    /\ wr.result.error.selector = wr.target
    /\ wr.result.error.attempt = wr.retries
    /\ wr.result.attempts = wr.retries

C22_Witness ==
  /\ InRetry /\ FailedForGood /\ wr.retries = 2
  /\ wr.errs = << "e1", "e2" >> /\ wr.target = "#submit"
  /\ wr.result.error.message = << "Click", 2, "e2" >>

\* C30: with an onError callback, the calls made so far are one per failed
\* attempt, numbered 1, 2, ... in order, the last attempt included; the
\* call for a failure comes before the sleep or the failure return that
\* follows it, and a successful attempt gets none.  Without a callback
\* there is no call.
C30_OnErrorPerFailure ==
  InRetry =>
    /\ ~wr.hasOnError => wr.onErrorCalls = << >>
    /\ wr.hasOnError =>
         /\ wr.onErrorCalls = [k \in 1..Len(wr.errs) |-> k]
         /\ Len(wr.sleeps) <= Len(wr.onErrorCalls)
         /\ wr.pc = "onError" =>
              /\ Len(wr.sleeps) = Len(wr.onErrorCalls) - 1
              /\ wr.result = NoResult
         /\ FailedForGood => Len(wr.onErrorCalls) = wr.retries
         /\ (wr.pc = "returned" /\ wr.result.success) =>
              Len(wr.onErrorCalls) = wr.invoked - 1

C30_Witness ==
  /\ InRetry /\ wr.hasOnError /\ FailedForGood /\ wr.retries = 3
  /\ wr.onErrorCalls = << 1, 2, 3 >> /\ Len(wr.sleeps) = 2

AllSelectedPassed == \A s \in 1..NumSel : outcome[s] = "passed"
SomeSelectedFailed == \E s \in 1..NumSel : outcome[s] \in FailedOutcomes
ErrorRaised == pc \in {"invalidEnv", "aborted"}

\* C23: when main has ended the exit code is 0 or 1; it is 0 exactly when
\* no orchestration error was raised and every selected scenario passed,
\* and 1 when a scenario failed or an orchestration error was raised
\* (invalid environment, run abort).
C23_ExitCode ==
  ExitCode # -1 =>
    /\ ExitCode \in {0, 1}
    /\ (ExitCode = 0) <=> (~ErrorRaised /\ AllSelectedPassed)
    /\ SomeSelectedFailed => ExitCode = 1
    /\ ErrorRaised => ExitCode = 1

C23_Witness ==
  /\ pc = "summary" /\ NumSel = 2 /\ ExitCode = 1
  /\ outcome[1] = "passed" /\ outcome[2] = "timedOut"

\* C25: the timer winning the race leaves the runner as it is, in flight;
\* from then on the runner of a timed-out scenario changes only by its own
\* steps (the call under way settles, the next attempt starts, up to
\* retryAttempts), and the scenario stays timed out.
C25_RunnerSurvivesTimeout ==
  [][\A s \in ScenIds :
       /\ (outcome[s] = "racing" /\ outcome'[s] = "timedOut") =>
            /\ runner[s] \in {"generating", "executing"}
            /\ runner'[s] = runner[s] /\ attempt'[s] = attempt[s]
       /\ (outcome[s] = "timedOut" /\ pc' \in {"awaitChunk", "summary"}) =>
            /\ outcome'[s] = "timedOut"
            /\ (runner'[s] # runner[s] \/ attempt'[s] # attempt[s]) =>
                 /\ runner[s] \in {"generating", "executing"}
                 /\ runner'[s] \in
                      {"generating", "executing", "resolved", "rejected"}
                 /\ attempt'[s] \in {attempt[s], attempt[s] + 1}
                 /\ attempt'[s] <= effectiveConfig.retryAttempts
    ]_vars

C25_Witness ==
  /\ pc = "awaitChunk" /\ cur = 2 /\ stats.failed = << Tags[1] >>
  /\ outcome[1] = "timedOut" /\ runner[1] = "resolved" /\ attempt[1] = 2
  /\ outcome[2] = "racing"

\* C26: the statistics object is created by main before the first chunk
\* and changes only in the step in which main resumes from Promise.all,
\* when every scenario of the current chunk has settled; while main waits
\* for a chunk the statistics count the earlier chunks only.
C26_StatsAfterChunk ==
  /\ [](pc = "awaitChunk" =>
          stats.passed + Len(stats.failed) = (cur - 1) * Conc)
  /\ [][stats' # stats =>
          IF stats = NoStats THEN pc = "start"
          ELSE /\ pc = "awaitChunk"
               /\ \A i \in 1..Len(chunks[cur]) :
                    outcome[chunks[cur][i]] \in SettledOutcomes
               /\ (pc' # pc \/ cur' = cur + 1)
               /\ \A s \in ScenIds :
                    runner[s] \in {"generating", "executing"} =>
                      (runner'[s] = runner[s] /\ attempt'[s] = attempt[s])
      ]_vars

C26_Witness ==
  /\ pc = "awaitChunk" /\ cur = 1 /\ Conc = 2 /\ NumSel = 2
  /\ outcome[1] = "passed" /\ outcome[2] = "racing"
  /\ stats.passed = 0 /\ stats.failed = << >>

\* C27 as stated: while the execSync call of one scenario is running, the
\* runners of the other scenarios, the timeout timers and the signal
\* handler can take a step.
C27_Original ==
  \A s \in ScenIds :
    (Running /\ ~MicrotaskPending /\ runner[s] = "executing") =>
      /\ \A r \in ScenIds \ {s} :
           runner[r] = "generating" => ENABLED GenerateDone(r)
      /\ \A r \in ScenIds : timer[r] = "armed" => ENABLED TimerFire(r)
      /\ ~aborted => ENABLED Signal

Interpolated == pc = "interpolate" /\ interp.pc = "done"

\* C24: a template without a placeholder of an unknown key resolves to the
\* same text with every ${CONFIG.KEY} of a known key replaced by the
\* value of the key and everything else unchanged ("go to
\* ${CONFIG.BASE_URL}" gives "go to https://x"); a template with a
\* placeholder of an unknown key fails, and the error's details are the
\* keys of the configuration.  A placeholder is what the pattern matches:
\* KEY is a name made of A-Z, 0-9 and _.
C24_PlaceholderResolution ==
  Interpolated =>
    LET t == interp.template
        r == interp.res
        known(i) == t[i] \in {Ph(k) : k \in DOMAIN CONFIG}
        unknown(i) == t[i] \in {Ph(k) : k \in KeyNames \ DOMAIN CONFIG}
    IN /\ r.thrown <=> \E i \in 1..Len(t) : unknown(i)
       /\ r.thrown =>
            r.details =
              {"ENV", "BASE_URL", "USERNAME", "PASSWORD", "OPENAI_API_KEY"}
       /\ ~r.thrown =>
            /\ Len(r.value) = Len(t)
            /\ \A i \in 1..Len(t) :
                 r.value[i] = IF known(i) THEN Lit(CONFIG[t[i].val])
                              ELSE t[i]
       /\ t = << Lit("go to "), Ph("BASE_URL") >> =>
            r.value = << Lit("go to "), Lit("https://x") >>

C24_Witness ==
  /\ Interpolated /\ ~interp.res.thrown
  /\ interp.template = << Lit("go to "), Ph("BASE_URL"), Ph("USERNAME") >>
  /\ interp.res.value = << Lit("go to "), Lit("https://x"), Lit("user") >>

\* C28 as stated: generateTest is called once per attempt started, execSync
\* only in an attempt whose generateTest call succeeded, and the file
\* execSync runs is the one that attempt's generateTest call wrote.
C28_Original ==
  (pc = "retry" /\ RunAttempts >= 1) =>
    /\ calls.gen = attempt[1]
    /\ Len(rr.ran) = calls.exec /\ calls.exec <= calls.gen
    /\ \A k \in 1..Len(rr.ran) : rr.ran[k].artifact = rr.ran[k].attempt

Exhausted == pc = "retry" /\ RunAttempts >= 1 /\ runner[1] = "rejected"

\* C29 as stated: the error of an exhausted runner holds the attempt
\* count, the tag, and the last error text truncated.
C29_Original ==
  Exhausted =>
    /\ rr.thrown.attempts = RunAttempts
    /\ "tag" \in DOMAIN rr.thrown
    /\ rr.thrown.text = SubSeq(rr.errorMessage, 1, LogErrorLimit)

\* C29 amended: the error of an exhausted runner holds the attempt count
\* and the whole text of the last underlying error; the tag and the text
\* cut to 300 characters are in the log record of the failed attempt, not
\* in the error.
C29_ExhaustedError ==
  /\ Exhausted =>
       /\ rr.thrown = [attempts |-> RunAttempts, text |-> rr.errorMessage]
       /\ rr.errorMessage \in ErrTexts
       /\ rr.logged.tag = scenariosToRun[1].tag
       /\ rr.logged.attempt = RunAttempts
       /\ rr.logged.totalAttempts = RunAttempts
       /\ Len(rr.logged.error) <= LogErrorLimit
       /\ \A k \in 1..Len(rr.logged.error) :
            rr.logged.error[k] = rr.errorMessage[k]
       /\ Len(rr.errorMessage) <= LogErrorLimit =>
            rr.logged.error = rr.errorMessage
  /\ (pc = "retry" /\ runner[1] # "rejected") => rr.thrown = NoThrown

C29_Witness ==
  /\ Exhausted /\ RunAttempts = 2
  /\ Len(rr.errorMessage) = LogErrorLimit + 1
  /\ Len(rr.thrown.text) = LogErrorLimit + 1
  /\ Len(rr.logged.error) = LogErrorLimit

\* C31: once the onError callback has failed, withRetry has rejected with
\* that failure: it has returned no outcome, it has not slept after the
\* failed attempt, and it takes no further step (no attempt, no sleep).
C31_OnErrorFailurePropagates ==
  /\ [](( InRetry /\ wr.onErrorFailed) =>
          /\ wr.pc = "threw" /\ wr.thrown = "onError"
          /\ wr.result = NoResult
          /\ wr.invoked = Len(wr.errs)
          /\ Len(wr.sleeps) = Len(wr.errs) - 1)
  /\ [][(pc = "withRetry" /\ wr.pc = "threw") => wr' = wr]_vars

C31_Witness ==
  /\ InRetry /\ wr.onErrorFailed /\ wr.retries = 3
  /\ wr.pc = "threw" /\ wr.invoked = 2 /\ wr.sleeps = << wr.delay >>

C34_Termination ==
  <>(pc \in {"invalidEnv", "noScenarios", "summary", "aborted"})

C34_Witness ==
  /\ pc = "summary" /\ NumSel = 2 /\ Conc = 2
  /\ outcome[1] = "timedOut" /\ runner[1] = "generating"
  /\ outcome[2] = "timedOut" /\ runner[2] = "generating"
  /\ attempt[1] = 1 /\ attempt[2] = 1

\* C35: a settled outcome never changes, whatever settles later: no step
\* of a late timer or of a late runner changes the outcome or the
\* statistics, and no scenario promise is ever rejected.
C35_SingleOutcome ==
  /\ [](pc # "scenarioRejected" /\ \A s \in ScenIds : outcome[s] # "rejected")
  /\ [][\A s \in ScenIds :
          outcome[s] \in SettledOutcomes =>
            /\ outcome'[s] = outcome[s]
            /\ (timer'[s] # timer[s] \/ runner'[s] # runner[s]
                  \/ attempt'[s] # attempt[s]) => stats' = stats
      ]_vars

C35_Witness ==
  /\ pc = "summary" /\ NumSel = 1 /\ stats.passed = 1
  /\ outcome[1] = "passed" /\ runner[1] = "resolved" /\ timer[1] = "fired"

C38_PartialStatsOnAbort ==
  pc = "aborted" =>
    LET ch == chunks[cur]
        fails == {i \in 1..Len(ch) : outcome[ch[i]] \in FailedOutcomes}
        first == CHOOSE i \in fails : \A j \in fails : i <= j
    IN /\ fails # {}
       /\ \A i \in 1..Len(ch) : outcome[ch[i]] \in SettledOutcomes
       /\ stats.failed = << scenariosToRun[ch[first]].tag >>
       /\ stats.passed = (cur - 1) * Conc + (first - 1)
       /\ stats.passed + Len(stats.failed) <= stats.total
       /\ (first < Len(ch) \/ cur < Len(chunks)) =>
            stats.passed + Len(stats.failed) < stats.total

C38_Witness ==
  /\ pc = "aborted" /\ NumSel = 3 /\ Conc = 3
  /\ outcome[1] = "passed" /\ outcome[2] = "timedOut"
  /\ outcome[3] = "runnerFailed"
  /\ stats.passed = 1 /\ stats.failed = << Tags[2] >> /\ stats.total = 3

\* C32: fillSafe returns success only when the value read back last equals
\* the text written; a read-back that differs fails the attempt with the
\* verification error, which leads to the onError callback, to a retry
\* after the backoff, or on the last attempt to the failure result.
InSafe == pc = "safeAction" /\ wr.pc # "call"

C32_FillReadBack ==
  /\ []((InSafe /\ act.kind = "fill" /\ wr.pc = "returned"
           /\ wr.result.success) =>
          (act.actual = act.text /\ act.log # << >>
             /\ act.log[Len(act.log)] = "inputValue"))
  /\ [][(InSafe /\ act.pc = "op"
           /\ act'.log = Append(act.log, "inputValue")
           /\ act'.actual # act.text) =>
          /\ wr'.errs = Append(wr.errs, VerificationFailed)
          /\ wr'.pc = IF wr.hasOnError THEN "onError"
                      ELSE IF wr.i = wr.retries - 1 THEN "returned"
                      ELSE "sleep"
          /\ wr'.pc = "returned" => ~wr'.result.success
          /\ wr'.invoked = wr.invoked
      ]_vars

C32_Witness ==
  /\ InSafe /\ act.kind = "fill" /\ wr.pc = "returned" /\ wr.result.success
  /\ wr.attempts = 2 /\ wr.errs = << VerificationFailed >>
  /\ act.actual = act.text

\* C33: in every invocation of the body of clickSafe and fillSafe without
\* force, click or fill is started only after toBeVisible and toBeEnabled
\* succeeded in that invocation; with force neither check is made.
Performed ==
  IF act.pc = "op" THEN Append(act.log, act.op) ELSE act.log

C33_PreChecks ==
  InSafe =>
    /\ act.force =>
         \A i \in 1..Len(Performed) :
           Performed[i] \notin {"toBeVisible", "toBeEnabled"}
    /\ ~act.force =>
         \A i \in 1..Len(Performed) :
           Performed[i] \in {"click", "fill"} =>
             \E v, e \in 1..Len(act.log) :
               /\ v < e /\ e < i
               /\ act.log[v] = "toBeVisible" /\ act.log[e] = "toBeEnabled"

C33_Witness ==
  /\ InSafe /\ ~act.force /\ act.kind = "click" /\ wr.attempts = 2
  /\ wr.pc = "returned" /\ wr.result.success
  /\ act.log = << "toBeVisible", "toBeEnabled", "scrollIntoViewIfNeeded",
                  "click" >>

\* C40: a client that has connected to /events, whose connection is open
\* and that no broadcast write has failed for is in the set `clients`
\* as long as the server has not shut down, whatever the number of
\* heartbeat ticks.  (The code deletes it at its second tick.)
C40_Original ==
  (pc = "monitor" /\ mon.pc = "listening") =>
    \A c \in ClientIds :
      (mon.conn[c] = "open" /\ c \notin mon.writeFailed) =>
        c \in mon.clients

\* C39 as stated: no prompt passed to generateTest holds a placeholder
\* the pattern matches or is empty or whitespace-only, and a scenario with
\* an unknown key or an empty prompt fails without a generateTest or
\* execSync call.  (The emptiness check is made on the template, before
\* the expansion: the expansion of a placeholder may be whitespace.)
PromptRun == pc = "prompt" /\ interp.pc = "run"
PromptOf == scenariosToRun[1].prompt
HasPlaceholder(p) == \E i \in 1..Len(p) : IsPlaceholder(p[i])
Expansion(t) ==
  [i \in 1..Len(t) |->
     IF IsPlaceholder(t[i]) THEN Lit(CONFIG[t[i].val]) ELSE t[i]]
BadTemplate(t) == IsBlank(t) \/ UnknownKeys(t) # {}

====
